---------------------------- MODULE Spec2Model ----------------------------
(***************************************************************************)
(* Model of the function `handle` of tutorial.ipynb: a scheduled job that  *)
(* reads a subscription cursor from a string time series, drains the data  *)
(* point subscription, builds a Power BI payload, posts it, and stores the *)
(* new cursor when the post answered 200.                                  *)
(*                                                                         *)
(* The CDF project (state time series, subscription feed, member time      *)
(* series), the Power BI endpoint and the wall clock are the environment;  *)
(* every call `handle` makes on them is one step of a run, so that runs    *)
(* started by overlapping schedule ticks interleave call by call.          *)
(***************************************************************************)
EXTENDS Integers, Sequences, FiniteSets, TLC

(***************************************************************************)
(* Bounds of the model.                                                    *)
(***************************************************************************)
MaxStarts == 2   \* invocations of handle that Spec follows
MaxFeed   == 2   \* change records the subscription ever holds (Spec)
MaxBacklog == 5  \* change records waiting in the feed at the start (SeqSpec)
PageSize  == 3   \* most updates the feed returns in one batch
MaxClock  == 1   \* wall-clock readings (milliseconds) after the first
MaxFaults == 1   \* injected failures (raised calls, non-200 answers) in FairSpec
MaxSamples == 6
MaxRecords == 3  \* sampled timestamps after the example's (PayloadSpec)

\* Two invocations of handle at a time: the schedule starts one every five
\* minutes, whether or not the one before has returned.
Runs == {1, 2}

None == "None"   \* Python's None, for a cursor

Min(a, b) == IF a < b THEN a ELSE b

(***************************************************************************)
(* The member time series of the subscription and their metadata.         *)
(***************************************************************************)
Streams == {1, 2}

TimeSeries(i) ==
    IF i = 1
    THEN [id |-> 1, name |-> "Sensor A", unit |-> "C", external_id |-> "EVE-1"]
    ELSE [id |-> 2, name |-> "Sensor B", unit |-> "bar", external_id |-> "EVE-2"]

\* An epoch-millisecond timestamp.  Python's integers are unbounded and the
\* timestamps of interest exceed 2^31, so a timestamp is carried as two
\* base-10^6 limbs: ms = hi * 10^6 + lo.
Ms(hi, lo) == [hi |-> hi, lo |-> lo]

\* 1699383982462
ExampleMs == Ms(1699383, 982462)

(***************************************************************************)
(* convert_ms_to_iso: ms_to_datetime, isoformat(timespec="milliseconds"),  *)
(* replace("+00:00", "Z").                                                 *)
(***************************************************************************)
Pad2(n) == IF n < 10 THEN "0" \o ToString(n) ELSE ToString(n)

Pad3(n) == IF n < 10 THEN "00" \o ToString(n)
           ELSE IF n < 100 THEN "0" \o ToString(n) ELSE ToString(n)

Pad4(n) == IF n < 1000 THEN "0" \o Pad3(n) ELSE ToString(n)

\* The days before the first of month m in a year that is no leap year.
DaysBeforeMonth(m) == <<0, 31, 59, 90, 120, 151, 181, 212, 243, 273, 304, 334>>[m]

\* The date of proleptic Gregorian ordinal n (1 = 0001-01-01), as the
\* datetime module finds it: in cycles of 400, 100, 4 and 1 years, then the
\* month from an estimate that is at most one too high.
ord2ymd(ordinal) ==
    LET n0   == ordinal - 1
        n400 == n0 \div 146097
        r400 == n0 % 146097
        n100 == r400 \div 36524
        r100 == r400 % 36524
        n4   == r100 \div 1461
        r4   == r100 % 1461
        n1   == r4 \div 365
        n    == r4 % 365
        year == n400 * 400 + 1 + n100 * 100 + n4 * 4 + n1
        leap == n1 = 3 /\ (n4 # 24 \/ n100 = 3)
        est  == (n + 50) \div 32
        pre  == DaysBeforeMonth(est) + (IF est > 2 /\ leap THEN 1 ELSE 0)
        month == IF pre > n THEN est - 1 ELSE est
        before == DaysBeforeMonth(month) + (IF month > 2 /\ leap THEN 1 ELSE 0)
    IN  IF n1 = 4 \/ n100 = 4
        THEN [year |-> year - 1, month |-> 12, day |-> 31]
        ELSE [year |-> year, month |-> month, day |-> n - before + 1]

\* ms_to_datetime(ms): datetime(1970, 1, 1, tzinfo=utc) + timedelta(ms), the
\* aware UTC datetime, as its fields (719163 is the ordinal of 1970-01-01).
ms_to_datetime(ms) ==
    LET sec  == ms.hi * 1000 + (ms.lo \div 1000)
        sod  == sec % 86400
        date == ord2ymd(719163 + (sec \div 86400))
    IN  [year |-> date.year, month |-> date.month, day |-> date.day,
         hour |-> sod \div 3600, minute |-> (sod % 3600) \div 60,
         second |-> sod % 60, microsecond |-> (ms.lo % 1000) * 1000,
         utcoffset |-> "+00:00"]

\* Mutant of isoformat: the default timespec ("auto"), which prints the
\* microseconds, and no fraction when they are 0.
isoformatAuto(dt) ==
    Pad4(dt.year) \o "-" \o Pad2(dt.month) \o "-" \o Pad2(dt.day) \o "T"
      \o Pad2(dt.hour) \o ":" \o Pad2(dt.minute) \o ":" \o Pad2(dt.second)
      \o (IF dt.microsecond = 0 THEN ""
          ELSE "." \o Pad3(dt.microsecond \div 1000) \o Pad3(dt.microsecond % 1000))
      \o dt.utcoffset

\* datetime.isoformat(timespec="milliseconds")
isoformat(dt) ==
    Pad4(dt.year) \o "-" \o Pad2(dt.month) \o "-" \o Pad2(dt.day) \o "T"
      \o Pad2(dt.hour) \o ":" \o Pad2(dt.minute) \o ":" \o Pad2(dt.second)
      \o "." \o Pad3(dt.microsecond \div 1000) \o dt.utcoffset

\* str.replace(old, new) for an `old` that can only occur as the suffix here
\* (the digits, "-", ":", "T" and "." before it hold no "+").
ReplaceSuffix(s, old, new) ==
    IF Len(s) >= Len(old) /\ SubSeq(s, Len(s) - Len(old) + 1, Len(s)) = old
    THEN SubSeq(s, 1, Len(s) - Len(old)) \o new
    ELSE s

convert_ms_to_iso(ms_since_epoch) ==
    ReplaceSuffix(isoformat(ms_to_datetime(ms_since_epoch)), "+00:00", "Z")


(***************************************************************************)
(* Change records of the subscription (DatapointsUpdate): the upserted     *)
(* data points of one time series, and the deleted ranges.                 *)
(***************************************************************************)
Upsert(i, ts, vs) ==
    [upserts |-> [id |-> i, timestamp |-> ts, value |-> vs], deletes |-> <<>>]

\* A record that reports a deletion only: its upserts hold no data point.
Deletion(i) ==
    [upserts |-> [id |-> i, timestamp |-> <<>>, value |-> <<>>],
     deletes |-> <<"range">>]

IsDeletion(item) == Len(item.upserts.timestamp) = 0

\* The change records the model's writers produce.
FeedUpdates ==
    { Upsert(1, <<ExampleMs>>, <<"98.6">>),
      Upsert(2, <<Ms(0, 0)>>, <<"1.5">>),
      Deletion(1) }

(***************************************************************************)
(* create_powerbi_payload                                                  *)
(***************************************************************************)
\* next((ts for ts in ts_list if ts.id == upsert.id), None): the matches, of
\* which the code takes the first; none stands for Python's None.
FindTs(ts_list, id) == SelectSeq(ts_list, LAMBDA ts : ts.id = id)

\* One loop iteration raises: upsert.timestamp[0] / upsert.value[0] on an
\* empty list (IndexError), or ts.unit on None (AttributeError).
ItemRaises(item, ts_list) ==
    \/ Len(item.upserts.timestamp) = 0
    \/ Len(item.upserts.value) = 0
    \/ Len(FindTs(ts_list, item.upserts.id)) = 0

\* Mutant of PayloadItem: upsert.timestamp[-1] and upsert.value[-1], the
\* last data point of the record.
PayloadItemLast(item, ts_list) ==
    LET upsert == item.upserts
        ts     == Head(FindTs(ts_list, upsert.id))
    IN  [timestamp |-> convert_ms_to_iso(upsert.timestamp[Len(upsert.timestamp)]),
         value     |-> upsert.value[Len(upsert.value)],
         unit      |-> ts.unit,
         sensor    |-> ts.name,
         tag       |-> ts.external_id]

PayloadItem(item, ts_list) ==
    LET upsert == item.upserts
        ts     == Head(FindTs(ts_list, upsert.id))
    IN  [timestamp |-> convert_ms_to_iso(upsert.timestamp[1]),
         value     |-> upsert.value[1],
         unit      |-> ts.unit,
         sensor    |-> ts.name,
         tag       |-> ts.external_id]

\* Mutant of create_powerbi_payload: `if ts is None: continue`, which skips
\* the records of a time series that ts_list does not hold.
PayloadOfKnown(update_data, ts_list) ==
    LET known == SelectSeq(update_data,
                           LAMBDA item : Len(FindTs(ts_list, item.upserts.id)) > 0)
    IN  IF \E i \in 1..Len(known) : ItemRaises(known[i], ts_list)
        THEN [raised |-> TRUE, data |-> <<>>]
        ELSE [raised |-> FALSE,
              data   |-> [i \in 1..Len(known) |-> PayloadItem(known[i], ts_list)]]

create_powerbi_payload(update_data, ts_list) ==
    IF \E i \in 1..Len(update_data) : ItemRaises(update_data[i], ts_list)
    THEN [raised |-> TRUE, data |-> <<>>]
    ELSE [raised |-> FALSE,
          data   |-> [i \in 1..Len(update_data) |-> PayloadItem(update_data[i], ts_list)]]

(***************************************************************************)
(* State.                                                                  *)
(***************************************************************************)
VARIABLES
    feed,      \* the subscription's change records, oldest first
    members,   \* ids of the time series the subscription includes
    state_ts,  \* the state time series exists
    dps,       \* its data points: timestamp -> cursor
    clock,     \* the wall clock, in milliseconds
    run,       \* per invocation slot: where handle is, and its locals
    acked,     \* per change record: POSTs holding it that the sink answered
               \* with a 2xx status (history; counted up to MaxStarts)
    delivered, \* per change record: POSTs holding it that the sink answered
               \* with 200 (history; counted up to MaxStarts)
    started,   \* invocations so far (counted where they are bounded)
    faults     \* failures injected so far (counted by FairSpec)

env  == <<feed, members, state_ts, dps, clock>>
vars == <<feed, members, state_ts, dps, clock, run, acked, delivered, started, faults>>

\* The frame of handle before its first statement.  pc is the call it is
\* about to make; cursor, ts_list, update_data, data, now are the locals of
\* that name and response is response.status_code (0: no response yet).
\* The rest is history: read is the cursor step 1 read, steps the calls made
\* so far in order (a repeated call once), pages the sizes of the batches
\* fetched so far, posts the POST requests sent, outcome how the invocation
\* ended.
Frame(at) ==
    [pc |-> at, cursor |-> None, ts_list |-> <<>>, update_data |-> <<>>,
     data |-> <<>>, response |-> 0, now |-> 0,
     read |-> None, steps |-> <<>>, pages |-> <<>>, posts |-> 0,
     outcome |-> "none"]

\* The frame f after one more call (or local step) `what`.
Did(f, what) ==
    IF Len(f.steps) > 0 /\ f.steps[Len(f.steps)] = what
    THEN f
    ELSE [f EXCEPT !.steps = Append(f.steps, what)]

(***************************************************************************)
(* The environment's side of the calls.                                    *)
(***************************************************************************)
\* The opaque cursor the feed hands out after its n-th change record.
CursorAt(n) == "c" \o ToString(n)

\* What the feed makes of a cursor it is given (None: from the start).
PosOf(c) == IF c = None THEN 0 ELSE CHOOSE n \in 0..Len(feed) : CursorAt(n) = c

Max(S) == CHOOSE x \in S : \A y \in S : y <= x

\* retrieve_latest(...).value: the value of the newest data point, as a list.
LatestValue == IF DOMAIN dps = {} THEN <<>> ELSE <<dps[Max(DOMAIN dps)]>>

\* The cursor an invocation that starts now would read.
StoredCursor == IF Len(LatestValue) = 0 THEN None ELSE LatestValue[1]

\* data.insert of one data point: a data point at the same timestamp is replaced.
InsertDp(d, t, v) == [x \in DOMAIN d \cup {t} |-> IF x = t THEN v ELSE d[x]]

\* retrieve_multiple(ids=[ts.id for ts in ts_items]): the members, in id order.
RECURSIVE SortedSeq(_)
SortedSeq(S) ==
    IF S = {} THEN <<>>
    ELSE LET m == CHOOSE x \in S : \A y \in S : x <= y
         IN  <<TimeSeries(m)>> \o SortedSeq(S \ {m})

\* HTTP status codes the sink answers with.
Statuses == {200, 202, 500}

Is2xx(status) == status \in 200..299

(***************************************************************************)
(* Initial states.                                                         *)
(***************************************************************************)
\* A new project: the subscription exists and is empty, the state time
\* series does not exist yet.
Init ==
    /\ feed     = <<>>
    /\ members  = {1}
    /\ state_ts = FALSE
    /\ dps      = <<>>
    /\ clock    = 0
    /\ run      = [r \in Runs |-> Frame("idle")]
    /\ acked    = <<>>
    /\ delivered = <<>>
    /\ started  = 0
    /\ faults   = 0

(***************************************************************************)
(* The environment's own steps.                                            *)
(***************************************************************************)
\* A writer upserts or deletes data points of a member time series.
Produce ==
    /\ Len(feed) < MaxFeed
    /\ \E u \in FeedUpdates :
          /\ u.upserts.id \in members
          /\ feed' = Append(feed, u)
    /\ acked' = Append(acked, 0)
    /\ delivered' = Append(delivered, 0)
    /\ UNCHANGED <<members, state_ts, dps, clock, run, started, faults>>

\* A time series starts to match the subscription's filter.
Join ==
    /\ \E i \in Streams \ members : members' = members \cup {i}
    /\ UNCHANGED <<feed, state_ts, dps, clock, run, acked, delivered, started, faults>>

\* A millisecond passes.
Tick ==
    /\ clock < MaxClock
    /\ clock' = clock + 1
    /\ UNCHANGED <<feed, members, state_ts, dps, run, acked, delivered, started, faults>>

(***************************************************************************)
(* handle(client, data, secrets), call by call.  These actions leave       *)
(* `started` and `faults` to the specification that takes them.            *)
(***************************************************************************)
Active(r) == run[r].pc \notin {"idle", "done"}

\* The schedule (or a caller) invokes handle.
Start(r) ==
    /\ ~Active(r)
    /\ run' = [run EXCEPT ![r] = Frame("retrieve")]
    /\ UNCHANGED <<env, acked, delivered>>

\* handle returns or raises: its locals are gone (`cursor` and `response`
\* are kept, as the last cursor the invocation held and the last status it
\* saw, with the history of its batches and POST requests).
Return(f, how) ==
    [Frame("done") EXCEPT !.cursor = f.cursor, !.response = f.response,
                          !.read = f.read, !.pages = f.pages, !.posts = f.posts,
                          !.outcome = how]

\* state_ts = client.time_series.retrieve(external_id=STATE_EXTERNAL_ID)
Retrieve(r) ==
    /\ run[r].pc = "retrieve"
    /\ run' = [run EXCEPT ![r] = [Did(run[r], "retrieve") EXCEPT
                                     !.pc = IF state_ts THEN "latest" ELSE "create"]]
    /\ UNCHANGED <<env, acked, delivered>>

\* Mutant of Create: steps 2 and 3 are in the else branch of step 1, so that
\* the invocation that creates the state time series goes on to the drain.
CreateThenDrain(r) ==
    /\ run[r].pc = "create"
    /\ IF state_ts
       THEN /\ run' = [run EXCEPT ![r] = Return(Did(run[r], "create"), "Failed")]
            /\ UNCHANGED state_ts
       ELSE /\ state_ts' = TRUE
            /\ run' = [run EXCEPT ![r] = [Did(run[r], "create") EXCEPT
                                             !.cursor = None, !.read = None,
                                             !.pc = "drain"]]
    /\ UNCHANGED <<feed, members, dps, clock, acked, delivered>>

\* client.time_series.create(TimeSeries(external_id=STATE_EXTERNAL_ID, ...));
\* the API refuses an external id that exists by now, and create raises.
Create(r) ==
    /\ run[r].pc = "create"
    /\ IF state_ts
       THEN /\ run' = [run EXCEPT ![r] = Return(Did(run[r], "create"), "Failed")]
            /\ UNCHANGED state_ts
       ELSE /\ state_ts' = TRUE
            /\ run' = [run EXCEPT ![r] = [Did(run[r], "create") EXCEPT
                                             !.cursor = None, !.read = None,
                                             !.pc = "members"]]
    /\ UNCHANGED <<feed, members, dps, clock, acked, delivered>>

\* Mutant of Latest: the stored cursor is not used, `cursor = None`.
LatestFromOrigin(r) ==
    /\ run[r].pc = "latest"
    /\ run' = [run EXCEPT ![r] = [Did(run[r], "latest") EXCEPT
                                     !.cursor = None, !.read = None, !.pc = "members"]]
    /\ UNCHANGED <<env, acked, delivered>>

\* cursor_dp = client.time_series.data.retrieve_latest(...);
\* cursor = None if len(cursor_dp.value) == 0 else cursor_dp.value[0]
Latest(r) ==
    /\ run[r].pc = "latest"
    /\ LET value == LatestValue
           c     == IF Len(value) = 0 THEN None ELSE value[1]
       IN  run' = [run EXCEPT ![r] = [Did(run[r], "latest") EXCEPT
                                         !.cursor = c, !.read = c, !.pc = "members"]]
    /\ UNCHANGED <<env, acked, delivered>>

\* ts_items = ...list_member_time_series(...);
\* ts_list = client.time_series.retrieve_multiple(ids=[ts.id for ts in ts_items])
Metadata(r) ==
    /\ run[r].pc = "members"
    /\ run' = [run EXCEPT ![r] = [Did(run[r], "members") EXCEPT
                                     !.ts_list = SortedSeq(members), !.pc = "drain"]]
    /\ UNCHANGED <<env, acked, delivered>>

\* One batch of iterate_data(external_id, cursor): n updates that follow the
\* cursor, the cursor after them, and whether more follow.
Batch(c, n) ==
    LET from == PosOf(c)
    IN  [updates  |-> SubSeq(feed, from + 1, from + n),
         cursor   |-> CursorAt(from + n),
         has_next |-> from + n < Len(feed)]

\* The sizes the feed may give the next batch after cursor c: up to PageSize
\* updates, and none only when none are left.
BatchSizes(c) ==
    LET left == Len(feed) - PosOf(c)
    IN  IF left = 0 THEN {0} ELSE 1..Min(PageSize, left)

\* Mutant of FetchNext: `cursor = batch.cursor` is missing.
FetchNextKeepsCursor(f, batch) ==
    [Did(f, "drain") EXCEPT
        !.update_data = f.update_data \o batch.updates,
        !.pages = Append(f.pages, Len(batch.updates)),
        !.pc = IF ~batch.has_next THEN "build" ELSE "drain"]

\* Mutant of FetchNext: `break` without the test of batch.has_next, which
\* stops after the first batch.
FetchNextBreaks(f, batch) ==
    [Did(f, "drain") EXCEPT
        !.update_data = f.update_data \o batch.updates,
        !.cursor = batch.cursor,
        !.pages = Append(f.pages, Len(batch.updates)),
        !.pc = "build"]

\* Mutant of FetchNext: `update_data = batch.updates`, which keeps the last
\* batch only.
FetchNextOverwrites(f, batch) ==
    [Did(f, "drain") EXCEPT
        !.update_data = batch.updates,
        !.cursor = batch.cursor,
        !.pages = Append(f.pages, Len(batch.updates)),
        !.pc = IF ~batch.has_next THEN "build" ELSE "drain"]

\* fetch_data_points_updates: one turn of its loop.
FetchNext(f, batch) ==
    [Did(f, "drain") EXCEPT
        !.update_data = f.update_data \o batch.updates,
        !.cursor = batch.cursor,
        !.pages = Append(f.pages, Len(batch.updates)),
        !.pc = IF ~batch.has_next THEN "build" ELSE "drain"]

Fetch(r) ==
    /\ run[r].pc = "drain"
    /\ \E n \in BatchSizes(run[r].cursor) :
          run' = [run EXCEPT ![r] = FetchNext(run[r], Batch(run[r].cursor, n))]
    /\ UNCHANGED <<env, acked, delivered>>

\* Mutant of BuildNext: the check for an empty update_data is missing.
BuildNextNoCheck(f) ==
    LET built == create_powerbi_payload(f.update_data, f.ts_list)
    IN  IF built.raised
        THEN Return(Did(f, "build"), "Failed")
        ELSE [Did(f, "build") EXCEPT !.data = built.data, !.pc = "post"]

\* if len(update_data) == 0: return None
\* data = create_powerbi_payload(update_data, ts_list)
BuildNext(f) ==
    IF Len(f.update_data) = 0
    THEN Return(f, "NoOp")
    ELSE LET built == create_powerbi_payload(f.update_data, f.ts_list)
         IN  IF built.raised
             THEN Return(Did(f, "build"), "Failed")
             ELSE [Did(f, "build") EXCEPT !.data = built.data, !.pc = "post"]

Build(r) ==
    /\ run[r].pc = "build"
    /\ run' = [run EXCEPT ![r] = BuildNext(run[r])]
    /\ UNCHANGED <<env, acked, delivered>>

\* The change records a payload of k rows built from the cursor c covers.
Covered(c, k) == (PosOf(c) + 1)..(PosOf(c) + k)

\* Mutant of PostNext: a POST answered other than 200 is sent again.
PostNextRetries(f, status) ==
    IF status = 200
    THEN [f EXCEPT !.response = status, !.pc = "now"]
    ELSE [f EXCEPT !.response = status, !.pc = "post"]

\* Mutant of PostNext: the status is not looked at.
PostNextUnchecked(f, status) ==
    [f EXCEPT !.response = status, !.pc = "now"]

\* Mutant of PostNext: `if response.ok`, which takes every 2xx status.
PostNextOk(f, status) ==
    IF Is2xx(status)
    THEN [f EXCEPT !.response = status, !.pc = "now"]
    ELSE Return([f EXCEPT !.response = status], "PublishError")

\* if response.status_code == 200: ... else: print("Error pushing data ...")
PostNext(f, status) ==
    IF status = 200
    THEN [f EXCEPT !.response = status, !.pc = "now"]
    ELSE Return([f EXCEPT !.response = status], "PublishError")

\* The frame f with one more POST request sent.
Sent(f) == [Did(f, "post") EXCEPT !.posts = f.posts + 1]

\* response = requests.request(method="POST", url=url, ..., data=json.dumps(data));
\* the sink answers with `status`.
Post(r, status) ==
    /\ run[r].pc = "post"
    /\ acked' = [p \in DOMAIN acked |->
                    IF Is2xx(status) /\ p \in Covered(run[r].read, Len(run[r].data))
                    THEN Min(acked[p] + 1, MaxStarts) ELSE acked[p]]
    /\ delivered' = [p \in DOMAIN delivered |->
                    IF status = 200 /\ p \in Covered(run[r].read, Len(run[r].data))
                    THEN Min(delivered[p] + 1, MaxStarts) ELSE delivered[p]]
    /\ run' = [run EXCEPT ![r] = PostNext(Sent(run[r]), status)]
    /\ UNCHANGED env

\* now = datetime_to_ms(datetime.now(timezone.utc))
Now(r) ==
    /\ run[r].pc = "now"
    /\ run' = [run EXCEPT ![r] = [run[r] EXCEPT !.now = clock, !.pc = "insert"]]
    /\ UNCHANGED <<env, acked, delivered>>

\* Mutant of Insert: the cursor of step 1 is stored, not the fetched one.
InsertRead(r) ==
    /\ run[r].pc = "insert"
    /\ dps' = InsertDp(dps, run[r].now, run[r].read)
    /\ run' = [run EXCEPT ![r] = Return(Did(run[r], "insert"), "CursorAdvanced")]
    /\ UNCHANGED <<feed, members, state_ts, clock, acked, delivered>>

\* client.time_series.data.insert(external_id=STATE_EXTERNAL_ID,
\*     datapoints=[{"timestamp": now, "value": cursor}])
Insert(r) ==
    /\ run[r].pc = "insert"
    /\ dps' = InsertDp(dps, run[r].now, run[r].cursor)
    /\ run' = [run EXCEPT ![r] = Return(Did(run[r], "insert"), "CursorAdvanced")]
    /\ UNCHANGED <<feed, members, state_ts, clock, acked, delivered>>

\* The calls that go over the network.
Calls == {"retrieve", "create", "latest", "members", "drain", "post", "insert"}

\* Mutant of Fail: data.insert in a try/except that swallows the error.
FailSwallowed(r) ==
    /\ run[r].pc \in Calls
    /\ run' = [run EXCEPT ![r] =
                  Return(IF run[r].pc = "post" THEN Sent(run[r])
                         ELSE Did(run[r], run[r].pc),
                         IF run[r].pc = "insert" THEN "CursorAdvanced" ELSE "Failed")]
    /\ UNCHANGED <<env, acked, delivered>>

\* A call raises (timeout, connection error, API error): handle ends there.
\* The request may have left: a POST that raises counts as sent.
Fail(r) ==
    /\ run[r].pc \in Calls
    /\ run' = [run EXCEPT ![r] =
                  Return(IF run[r].pc = "post" THEN Sent(run[r])
                         ELSE Did(run[r], run[r].pc), "Failed")]
    /\ UNCHANGED <<env, acked, delivered>>

\* The steps of handle that are no injected failure.
Proceed(r) ==
    \/ Retrieve(r) \/ Create(r) \/ Latest(r) \/ Metadata(r) \/ Fetch(r)
    \/ Build(r) \/ Post(r, 200) \/ Now(r) \/ Insert(r)

\* The injected failures: a call raises, or the sink answers other than 200.
Fault(r) ==
    \/ Fail(r)
    \/ \E status \in Statuses \ {200} : Post(r, status)

(***************************************************************************)
(* Spec: MaxStarts invocations in two slots, which may overlap and any of  *)
(* whose calls may fail, against a feed that grows while they run.         *)
(***************************************************************************)
Invoke(r) == started < MaxStarts /\ started' = started + 1 /\ Start(r)

Next ==
    \/ Produce
    \/ Tick
    \/ \E r \in Runs : Invoke(r) /\ UNCHANGED faults
    \/ \E r \in Runs : Proceed(r) /\ UNCHANGED <<started, faults>>
    \/ \E r \in Runs : Fault(r) /\ UNCHANGED <<started, faults>>

Spec == Init /\ [][Next]_vars

(***************************************************************************)
(* Properties of the cursor store under Spec.                              *)
(***************************************************************************)
\* The step is run r's data.insert, and it succeeds.
Inserts(r) == run[r].pc = "insert" /\ run'[r].outcome = "CursorAdvanced"

\* The feed position a cursor stands for.
StoredPos == PosOf(StoredCursor)

\* C1 - No premature cursor advancement: the data points of the state time
\* series change only in the data.insert of an invocation whose POST was
\* answered 200; an invocation whose POST failed or was never made ends with
\* the data points as they were when it took its last step.
C1_NoPrematureAdvance ==
    [][ /\ dps' # dps =>
             \E r \in Runs : Inserts(r) /\ run[r].response = 200 /\ run[r].posts = 1
        /\ \A r \in Runs :
             (run'[r] # run[r] /\ run'[r].outcome \in {"NoOp", "PublishError", "Failed"}
                 /\ run[r].pc # "insert")
               => dps' = dps ]_vars

\* An invocation's POST was answered 500 and nothing was stored.
C1_Witness ==
    \E r \in Runs :
        /\ run[r].outcome = "PublishError"
        /\ run[r].response = 500
        /\ run[r].posts = 1
        /\ DOMAIN dps = {}

\* C3 - No lost updates under overlapping runs: every change record the feed
\* places before the stored cursor was in a POST the sink answered with 2xx.
C3_NoLostUpdates == \A p \in 1..StoredPos : acked[p] >= 1

\* Two overlapping invocations read the same cursor, both delivered the first
\* change record, both stored a cursor.
C3_Witness ==
    /\ \A r \in Runs : run[r].outcome = "CursorAdvanced" /\ run[r].read = None
    /\ StoredPos >= 1
    /\ acked[1] = 2

\* C4 - The stored cursor never regresses: no step moves the latest value of
\* the state time series to an earlier feed position.
C4_NeverRegresses == [][PosOf(StoredCursor)' >= PosOf(StoredCursor)]_vars

\* Both slots hold an invocation that stored a cursor, and both had read the
\* same cursor at their start.
BothAdvancedFromSameCursor ==
    /\ \A r \in Runs : run[r].outcome = "CursorAdvanced"
    /\ \A r, q \in Runs : run[r].read = run[q].read

\* The change records between the cursor invocation r read and the one it
\* held at its end.
Drained(r) == (PosOf(run[r].read) + 1)..PosOf(run[r].cursor)

\* C5 as stated - Two overlapping invocations that read the same cursor
\* publish the same batch and store the same cursor: after both, the stored
\* cursor is that shared cursor and the sink has acknowledged the batch twice.
C5_SameBatchTwice ==
    BothAdvancedFromSameCursor =>
        /\ \A r, q \in Runs : run[r].cursor = run[q].cursor
        /\ \A r \in Runs : StoredCursor = run[r].cursor
        /\ \A r \in Runs : \A p \in Drained(r) : acked[p] = 2

\* C5 as amended - Two overlapping invocations that read the same cursor and
\* drained the feed to the same head each send one POST with that batch and
\* each store that head's cursor: after both, the stored cursor is that
\* cursor and the sink has acknowledged each record of the batch twice.
C5_SameHeadTwice ==
    (BothAdvancedFromSameCursor /\ \A r, q \in Runs : run[r].cursor = run[q].cursor)
      => /\ \A r \in Runs : StoredCursor = run[r].cursor
         /\ \A r \in Runs : run[r].posts = 1
         /\ \A r \in Runs : \A p \in Drained(r) : acked[p] >= 2

\* Both invocations read no cursor, drained the same two change records,
\* sent one POST each and stored the cursor that follows the second record.
C5_Witness ==
    /\ BothAdvancedFromSameCursor
    /\ \A r \in Runs : run[r].cursor = "c2" /\ run[r].posts = 1
    /\ StoredCursor = "c2"
    /\ acked = <<2, 2>>

\* POST requests answered with a 2xx status lead on to the cursor write (which
\* may itself fail).
C6_Any2xxAdvances ==
    \A r \in Runs :
        (run[r].pc = "done" /\ run[r].posts = 1 /\ Is2xx(run[r].response))
          => run[r].outcome \in {"CursorAdvanced", "Failed"}

\* C6 as stated - An invocation writes a cursor if and only if its POST was
\* answered with a 2xx status.
C6_GatedOn2xx ==
    /\ C6_Any2xxAdvances
    /\ \A r \in Runs :
          (run[r].pc \in {"now", "insert"} \/ run[r].outcome = "CursorAdvanced")
            => Is2xx(run[r].response)

\* C6 as amended - An invocation writes a cursor if and only if its one POST
\* was answered 200; any other status, 2xx or not, and a raised request end
\* it without a write.  The value written is the cursor of the last batch
\* fetched: the one that follows all the change records it drained.
C6_GatedOn200 ==
    /\ [](\A r \in Runs :
            (run[r].pc \in {"now", "insert"} \/ run[r].outcome = "CursorAdvanced")
              => (run[r].response = 200 /\ run[r].posts = 1))
    /\ [](\A r \in Runs :
            (run[r].pc = "done" /\ run[r].response = 200)
              => run[r].outcome \in {"CursorAdvanced", "Failed"})
    /\ [](\A r \in Runs :
            (run[r].pc = "done" /\ run[r].response # 200)
              => run[r].outcome # "CursorAdvanced")
    /\ [][\A r \in Runs :
            Inserts(r) =>
              dps' = InsertDp(dps, run[r].now,
                              CursorAt(PosOf(run[r].read) + Len(run[r].update_data)))]_vars

\* One invocation was answered 202 and ended without a write, the other was
\* answered 200 and stored the cursor after the two records it drained.
C6_Witness ==
    \E r, q \in Runs :
        /\ run[r].outcome = "PublishError" /\ run[r].response = 202
        /\ run[q].outcome = "CursorAdvanced" /\ run[q].response = 200
        /\ run[q].read = None /\ StoredCursor = "c2"

\* The step is run r's return from an empty drain.
ReturnsNoOp(r) ==
    run[r].pc = "build" /\ Len(run[r].update_data) = 0 /\ run'[r] # run[r]

\* C7 as stated - An invocation whose drain returned no change record ends as
\* a no-op that has created no state time series, written no cursor, looked
\* up no metadata and sent nothing to the sink.
C7_NoOpTouchesNothing ==
    [][\A r \in Runs :
          ReturnsNoOp(r) =>
            /\ run'[r].outcome = "NoOp"
            /\ run[r].posts = 0 /\ dps' = dps /\ acked' = acked
            /\ \A i \in 1..Len(run[r].steps) :
                  run[r].steps[i] \notin {"create", "members", "post", "insert"}]_vars

\* C7 as amended - An invocation whose drain returned no change record ends
\* as a no-op that has written no cursor and sent nothing to the sink; before
\* the drain it has read the cursor (creating the state time series when it
\* did not exist) and looked up the member time series and their metadata.
C7_NoOpWritesNothing ==
    [][\A r \in Runs :
          ReturnsNoOp(r) =>
            /\ run'[r].outcome = "NoOp" /\ run'[r].pc = "done"
            /\ run[r].posts = 0 /\ dps' = dps /\ acked' = acked
            /\ \A i \in 1..Len(run[r].steps) : run[r].steps[i] \notin {"post", "insert"}
            /\ \E i \in 1..Len(run[r].steps) : run[r].steps[i] = "members"
            /\ run[r].steps[2] \in {"create", "latest"}]_vars

\* An invocation found no state time series, created it, drained nothing
\* from the empty feed and returned; no cursor is stored.
C7_Witness ==
    \E r \in Runs :
        /\ run[r].outcome = "NoOp" /\ run[r].read = None /\ run[r].cursor = "c0"
        /\ state_ts /\ DOMAIN dps = {} /\ feed = <<>>


(***************************************************************************)
(* The payload builder and records that report a deletion.                 *)
(***************************************************************************)
\* The change records of update_data that carry an upserted data point.
UpsertsOf(update_data) == SelectSeq(update_data, LAMBDA item : ~IsDeletion(item))

\* Run r takes step 6 with a non-empty update_data.
Builds(r) ==
    run[r].pc = "build" /\ Len(run[r].update_data) > 0 /\ run'[r] # run[r]

\* C8 (as stated): the payload builder considers only the records tagged as
\* upserts; a record that reports a deletion is dropped without failing the
\* build or the run, and contributes no row: step 6 never ends the run as
\* Failed, and the payload it builds is the rows of the upsert records.
C8_DeletionsDropped ==
    [][\A r \in Runs :
          Builds(r) =>
             /\ run'[r].outcome # "Failed"
             /\ run'[r].pc = "post" =>
                   LET kept == UpsertsOf(run[r].update_data)
                   IN  run'[r].data =
                          [i \in 1..Len(kept) |-> PayloadItem(kept[i], run[r].ts_list)]]_vars

(***************************************************************************)
(* SeqSpec: a backlog of upserts waits in the feed; invocations follow one  *)
(* another in one slot within the same millisecond, and any of their calls *)
(* may fail.                                                               *)
(***************************************************************************)
\* The backlogs of at most n change records.
RECURSIVE Backlogs(_)
Backlogs(n) ==
    IF n = 0 THEN {<<>>}
    ELSE LET shorter == Backlogs(n - 1)
         IN  shorter \cup {Append(b, u) : b \in shorter,
                                           u \in {x \in FeedUpdates : ~IsDeletion(x)}}

SeqInit ==
    /\ feed \in Backlogs(MaxBacklog)
    /\ members  = Streams
    /\ state_ts = FALSE
    /\ dps      = <<>>
    /\ clock    = 0
    /\ run      = [r \in Runs |-> Frame("idle")]
    /\ acked    = [p \in 1..Len(feed) |-> 0]
    /\ delivered = [p \in 1..Len(feed) |-> 0]
    /\ started  = 0
    /\ faults   = 0

SeqNext ==
    \/ Invoke(1) /\ UNCHANGED faults
    \/ Proceed(1) /\ UNCHANGED <<started, faults>>
    \/ Fault(1) /\ UNCHANGED <<started, faults>>

SeqSpec == SeqInit /\ [][SeqNext]_vars

\* The change records that follow the cursor run r read, up to the feed's head.
Pending(r) == SubSeq(feed, PosOf(run[r].read) + 1, Len(feed))

\* Every batch but the last was followed by more (has_next), so it held at
\* least one update: the drain stopped at the first batch with has_next false.
StoppedAtFirstLast(pages) ==
    \A k \in 1..(Len(pages) - 1) : pages[k] > 0

\* C9: fetch_data_points_updates consumes batches from the cursor read (the
\* feed's origin when None) up to the first whose has_next is false, and
\* returns all their updates in order with the cursor of the last batch; the
\* one POST of the run carries a row for each of them in feed order, and
\* after a 200 the stored cursor is that last cursor.
C9_FullDrain ==
    \A r \in Runs :
       /\ run[r].pc \in {"build", "post", "now", "insert"} =>
             /\ run[r].update_data = Pending(r)
             /\ run[r].cursor = CursorAt(Len(feed))
             /\ StoppedAtFirstLast(run[r].pages)
       /\ run[r].pc \in {"now", "insert"} =>
             /\ run[r].posts = 1
             /\ run[r].data =
                   [i \in 1..Len(Pending(r)) |-> PayloadItem(Pending(r)[i], run[r].ts_list)]
       /\ run[r].posts <= 1
       /\ run[r].outcome = "CursorAdvanced" =>
             /\ run[r].posts = 1
             /\ run[r].cursor = CursorAt(Len(feed))
             /\ StoredCursor = CursorAt(Len(feed))

\* No stored cursor, batches of 3 and then 2 updates, one POST answered 200,
\* and the cursor of the second batch stored.
C9_Witness ==
    \E r \in Runs :
       /\ run[r].outcome = "CursorAdvanced"
       /\ run[r].read = None
       /\ run[r].pages = <<3, 2>>
       /\ run[r].posts = 1 /\ run[r].response = 200
       /\ Len(feed) = 5
       /\ StoredCursor = CursorAt(5)

(***************************************************************************)
(* PayloadSpec: one upsert waits in the feed, its timestamp drawn from the  *)
(* samples; invocations follow one another in one slot and no call fails.  *)
(***************************************************************************)
\* The k-th timestamp after the example's, 41 days 7:13:37.123 apart.
Sample(k) ==
    LET lo == ExampleMs.lo + k * 417123
    IN  Ms(ExampleMs.hi + k * 3568 + (lo \div 1000000), lo % 1000000)

\* The epoch and 5 ms after it, the last millisecond of 2000-02-29 and of
\* 2023, the first of 2024-02-29, 1699382782462, the example and the samples
\* that follow it.
SampleMs ==
    { Ms(0, 0), Ms(0, 5), Ms(951868, 799999), Ms(1704067, 199999),
      Ms(1709164, 800000), Ms(1699382, 782462), ExampleMs }
      \cup { Sample(k) : k \in 1..MaxSamples }

PayloadInit ==
    /\ feed \in { <<Upsert(i, <<ms>>, <<"98.6">>)>> : i \in Streams, ms \in SampleMs }
    /\ members  = Streams
    /\ state_ts = FALSE
    /\ dps      = <<>>
    /\ clock    = 0
    /\ run      = [r \in Runs |-> Frame("idle")]
    /\ acked    = <<0>>
    /\ delivered = <<0>>
    /\ started  = 0
    /\ faults   = 0

PayloadNext ==
    \/ Invoke(1) /\ UNCHANGED faults
    \/ Proceed(1) /\ UNCHANGED <<started, faults>>

PayloadSpec == PayloadInit /\ [][PayloadNext]_vars

\* Reading a timestamp of the form YYYY-MM-DDThh:mm:ss.mmmZ back.
IsDigit(c) == \E d \in 0..9 : ToString(d) = c

Digit(c) == CHOOSE d \in 0..9 : ToString(d) = c

RECURSIVE Number(_)
Number(s) ==
    IF Len(s) = 0 THEN 0
    ELSE Number(SubSeq(s, 1, Len(s) - 1)) * 10 + Digit(SubSeq(s, Len(s), Len(s)))

\* s is ISO 8601 with a date, a time to the millisecond and a literal Z.
IsIsoMillisZ(s) ==
    /\ Len(s) = 24
    /\ \A i \in 1..24 :
          LET c == SubSeq(s, i, i)
          IN  IF i \in {5, 8} THEN c = "-"
              ELSE IF i = 11 THEN c = "T"
              ELSE IF i \in {14, 17} THEN c = ":"
              ELSE IF i = 20 THEN c = "."
              ELSE IF i = 24 THEN c = "Z"
              ELSE IsDigit(c)

IsLeap(y) == (y % 4 = 0 /\ y % 100 # 0) \/ y % 400 = 0

DaysInYear(y) == IF IsLeap(y) THEN 366 ELSE 365

DaysInMonth(y, m) ==
    IF m = 2 THEN (IF IsLeap(y) THEN 29 ELSE 28)
    ELSE IF m \in {4, 6, 9, 11} THEN 30 ELSE 31

\* The days from 1970-01-01 to the first day of year y.
RECURSIVE DaysToYear(_)
DaysToYear(y) == IF y <= 1970 THEN 0 ELSE DaysToYear(y - 1) + DaysInYear(y - 1)

\* The days from the first day of year y to the first day of its month m.
RECURSIVE DaysToMonth(_, _)
DaysToMonth(y, m) == IF m <= 1 THEN 0 ELSE DaysToMonth(y, m - 1) + DaysInMonth(y, m - 1)

\* The days from 1970-01-01 to the civil date y-m-d, counted along the
\* calendar year by year and month by month.
DaysFromCivil(y, m, d) == DaysToYear(y) + DaysToMonth(y, m) + d - 1

\* The epoch milliseconds of the UTC instant that s denotes.
ParseIso(s) ==
    LET days == DaysFromCivil(Number(SubSeq(s, 1, 4)), Number(SubSeq(s, 6, 7)),
                              Number(SubSeq(s, 9, 10)))
        sec  == days * 86400 + Number(SubSeq(s, 12, 13)) * 3600
                  + Number(SubSeq(s, 15, 16)) * 60 + Number(SubSeq(s, 18, 19))
    IN  Ms(sec \div 1000, (sec % 1000) * 1000 + Number(SubSeq(s, 21, 23)))

\* The change record of the example: 1699383982462, 98.6, on "EVE-1".
ExampleRecord == Upsert(1, <<ExampleMs>>, <<"98.6">>)

\* The row of the example with the timestamp string t.
ExampleRow(t) ==
    [timestamp |-> t, value |-> "98.6", unit |-> "C", sensor |-> "Sensor A",
     tag |-> "EVE-1"]

\* C10 (as stated): the row built for the example record is
\* {timestamp: "2023-11-07T18:46:22.462Z", value: 98.6, unit: "C",
\*  sensor: "Sensor A", tag: "EVE-1"}.
C10_ExampleAsStated ==
    \A r \in Runs :
       run[r].pc = "post" =>
          \A i \in 1..Len(run[r].update_data) :
             run[r].update_data[i] = ExampleRecord =>
                run[r].data[i] = ExampleRow("2023-11-07T18:46:22.462Z")

\* C10 (amended): the payload holds one row per change record; its timestamp
\* is the ISO 8601 rendering in UTC of the record's epoch milliseconds, to
\* the millisecond and with a literal Z (read back, it gives the same epoch
\* milliseconds), its value the record's value, and unit, sensor and tag the
\* unit, name and external id of the record's time series; the row of the
\* example is {timestamp: "2023-11-07T19:06:22.462Z", value: 98.6,
\* unit: "C", sensor: "Sensor A", tag: "EVE-1"}.
C10_PayloadFidelity ==
    \A r \in Runs :
       run[r].pc = "post" =>
          /\ Len(run[r].data) = Len(run[r].update_data)
          /\ \A i \in 1..Len(run[r].data) :
                LET upsert == run[r].update_data[i].upserts
                    row    == run[r].data[i]
                    ts     == TimeSeries(upsert.id)
                IN  /\ DOMAIN row = {"timestamp", "value", "unit", "sensor", "tag"}
                    /\ IsIsoMillisZ(row.timestamp)
                    /\ ParseIso(row.timestamp) = upsert.timestamp[1]
                    /\ row.value = upsert.value[1]
                    /\ row.unit = ts.unit
                    /\ row.sensor = ts.name
                    /\ row.tag = ts.external_id
                    /\ run[r].update_data[i] = ExampleRecord =>
                          row = ExampleRow("2023-11-07T19:06:22.462Z")

\* The payload of the example record has been built.
C10_Witness ==
    \E r \in Runs :
       /\ run[r].pc = "post"
       /\ run[r].update_data = <<ExampleRecord>>
       /\ run[r].data = <<ExampleRow("2023-11-07T19:06:22.462Z")>>

(***************************************************************************)
(* FairSpec: the schedule keeps invoking handle in both slots, an          *)
(* invocation that can take its next step takes it, and at most MaxFaults  *)
(* calls fail or are answered other than 200.                              *)
(***************************************************************************)
Reinvoke(r) == Start(r) /\ UNCHANGED <<started, faults>>

Step(r) == Proceed(r) /\ UNCHANGED <<started, faults>>

Inject(r) ==
    /\ faults < MaxFaults
    /\ faults' = faults + 1
    /\ Fault(r)
    /\ UNCHANGED started

FairNext ==
    \/ Produce
    \/ \E r \in Runs : Reinvoke(r)
    \/ \E r \in Runs : Step(r)
    \/ \E r \in Runs : Inject(r)

\* Weak fairness of Step(r), which is enabled exactly while the invocation
\* is active: it is not active for ever without taking a step.
StepsOn(r) == []<>(~Active(r)) \/ []<><<Step(r)>>_vars

FairSpec ==
    /\ Init
    /\ [][FairNext]_vars
    /\ \A r \in Runs : WF_vars(Reinvoke(r)) /\ StepsOn(r)

\* C2 (as stated): every change record present in the feed is eventually in
\* a batch that the sink acknowledged.
C2_AtLeastOnce ==
    \A p \in 1..MaxFeed : (Len(feed) >= p) ~> (Len(feed) >= p /\ acked[p] >= 1)

(***************************************************************************)
(* TurnSpec: a backlog of upserts waits in the feed; invocations follow    *)
(* one another and take the two slots in turn, so that the other slot      *)
(* holds the invocation before the current one.  Any call may fail;        *)
(* `faults` counts the cursor writes that failed.                          *)
(***************************************************************************)
TurnInit ==
    /\ feed \in Backlogs(MaxFeed)
    /\ members  = Streams
    /\ state_ts = FALSE
    /\ dps      = <<>>
    /\ clock    = 0
    /\ run      = [r \in Runs |-> Frame("idle")]
    /\ acked    = [p \in 1..Len(feed) |-> 0]
    /\ delivered = [p \in 1..Len(feed) |-> 0]
    /\ started  = 0
    /\ faults   = 0

TurnInvoke(r) ==
    /\ r = (started % 2) + 1
    /\ \A q \in Runs : ~Active(q)
    /\ Invoke(r)

\* data.insert raises.
WriteFails(r) ==
    /\ run[r].pc = "insert"
    /\ Fail(r)
    /\ faults' = faults + 1

TurnNext ==
    \/ Tick
    \/ \E r \in Runs : TurnInvoke(r) /\ UNCHANGED faults
    \/ \E r \in Runs : Proceed(r) /\ UNCHANGED <<started, faults>>
    \/ \E r \in Runs : run[r].pc # "insert" /\ Fault(r) /\ UNCHANGED <<started, faults>>
    \/ \E r \in Runs : WriteFails(r) /\ UNCHANGED started

TurnSpec == TurnInit /\ [][TurnNext]_vars

\* Invocation q was answered 200 and then failed in its cursor write.
FailedAtWrite(q) ==
    run[q].pc = "done" /\ run[q].outcome = "Failed" /\ run[q].response = 200

\* C11: when the POST was answered 200 and data.insert then raises, the
\* invocation ends Failed and the data points of the state time series are
\* as they were; the next invocation reads the cursor the failed one had
\* read, fetches the same change records and posts them again, so that each
\* of them is delivered twice and none is lost.
C11_WriteFailureDuplicates ==
    /\ [][\A r \in Runs :
            (run[r].pc = "insert" /\ faults' # faults) =>
               /\ run[r].response = 200 /\ run[r].posts = 1
               /\ run'[r].pc = "done" /\ run'[r].outcome = "Failed"
               /\ dps' = dps]_vars
    /\ [](\A r, q \in Runs :
            (r # q /\ Active(r) /\ FailedAtWrite(q)) =>
               /\ StoredCursor = run[q].read
               /\ \A p \in Drained(q) : delivered[p] >= 1
               /\ run[r].pc \in {"members", "drain", "build", "post", "now", "insert"}
                     => run[r].read = run[q].read
               /\ run[r].pc \in {"build", "post", "now", "insert"}
                     => run[r].update_data = Pending(q)
               /\ run[r].pc \in {"now", "insert"}
                     => \A p \in Drained(q) : delivered[p] >= 2)

\* The first invocation delivered two change records and failed in its
\* cursor write; the second delivered them again and stored the cursor.
C11_Witness ==
    \E r, q \in Runs :
       /\ FailedAtWrite(q) /\ run[q].read = None
       /\ run[r].outcome = "CursorAdvanced" /\ run[r].read = None
       /\ faults = 1 /\ started = 2
       /\ Len(feed) = 2 /\ delivered = <<2, 2>>
       /\ StoredCursor = CursorAt(2)

(***************************************************************************)
(* JoinSpec: invocations follow one another in one slot while the feed     *)
(* grows and time series join the subscription; any call may fail, and     *)
(* `faults` counts the cursor writes that failed.                          *)
(***************************************************************************)
JoinNext ==
    \/ Produce
    \/ Join
    \/ Invoke(1) /\ UNCHANGED faults
    \/ Proceed(1) /\ UNCHANGED <<started, faults>>
    \/ run[1].pc # "insert" /\ Fault(1) /\ UNCHANGED <<started, faults>>
    \/ WriteFails(1) /\ UNCHANGED started

JoinSpec == Init /\ [][JoinNext]_vars

\* update_data holds a change record of a time series that ts_list lacks.
HasUnknown(update_data, ts_list) ==
    \E i \in 1..Len(update_data) : Len(FindTs(ts_list, update_data[i].upserts.id)) = 0

\* C12: when a fetched change record is of a time series that the metadata
\* of the invocation does not hold (one that joined the subscription after
\* the lookup, say), the build raises: the invocation ends Failed, having
\* sent no POST and written no cursor; and no payload that reaches the POST
\* holds a row of a time series without metadata.
C12_UnknownStreamFails ==
    /\ [][\A r \in Runs :
            (run[r].pc = "build" /\ run'[r] # run[r]
               /\ HasUnknown(run[r].update_data, run[r].ts_list)) =>
               /\ run'[r].pc = "done" /\ run'[r].outcome = "Failed"
               /\ run'[r].posts = 0
               /\ dps' = dps /\ acked' = acked]_vars
    /\ [](\A r \in Runs :
            run[r].pc \in {"post", "now", "insert"} =>
               /\ ~HasUnknown(run[r].update_data, run[r].ts_list)
               /\ Len(run[r].data) = Len(run[r].update_data)
               /\ \A i \in 1..Len(run[r].data) :
                     LET ts == TimeSeries(run[r].update_data[i].upserts.id)
                     IN  /\ run[r].data[i].unit = ts.unit
                         /\ run[r].data[i].sensor = ts.name
                         /\ run[r].data[i].tag = ts.external_id)

\* The first invocation drained the whole feed, which holds upserts only and
\* one of the time series that joined, and failed after the drain without a
\* POST: its metadata lacked that time series.
C12_Witness ==
    \E r \in Runs :
       /\ run[r].outcome = "Failed" /\ run[r].posts = 0 /\ started = 1
       /\ run[r].pages # <<>> /\ run[r].cursor = CursorAt(Len(feed))
       /\ \A i \in 1..Len(feed) : ~IsDeletion(feed[i])
       /\ \E i \in 1..Len(feed) : feed[i].upserts.id = 2
       /\ DOMAIN dps = {}

\* C13 (as stated): in a sequence of invocations that do not overlap and
\* whose cursor writes all succeed, whatever else fails, no change record is
\* in more than one POST that the sink acknowledged (answered with 2xx).
C13_OnceAcknowledged ==
    faults = 0 => \A p \in 1..Len(feed) : acked[p] <= 1

\* C13 (amended): in a sequence of invocations that do not overlap and whose
\* cursor writes all succeed, whatever else fails, no change record is in
\* more than one POST that the sink answered 200; a POST answered with
\* another 2xx status is sent again by the next invocation.
C13_OnceDelivered ==
    faults = 0 => \A p \in 1..Len(feed) : delivered[p] <= 1

\* The first invocation's POST was answered 202, the second sent the two
\* change records again, was answered 200 and stored the cursor; no cursor
\* write failed.
C13_Witness ==
    \E r \in Runs :
       /\ run[r].outcome = "CursorAdvanced" /\ run[r].read = None
       /\ faults = 0 /\ started = 2
       /\ Len(feed) = 2 /\ acked = <<2, 2>> /\ delivered = <<1, 1>>

(***************************************************************************)
(* The order of the calls of one invocation (SeqSpec).                     *)
(***************************************************************************)
IsPrefix(s, t) == Len(s) <= Len(t) /\ s = SubSeq(t, 1, Len(s))

\* The calls made so far are the first ones of `order`, whose second call
\* is the creation of the state time series or the read of its latest value.
Follows(steps, order) ==
    \E second \in {"create", "latest"} :
       IsPrefix(steps, [order EXCEPT ![2] = second])

\* C14 (as stated): the calls of an invocation come in the order cursor
\* read, feed drain, metadata lookup, payload build, POST, cursor write: the
\* metadata is looked up only after the change records were fetched.
C14_DrainThenMetadata ==
    \A r \in Runs :
       Active(r) =>
          Follows(run[r].steps,
                  <<"retrieve", "latest", "drain", "members", "build", "post">>)

\* C14 (amended): the calls of an invocation come in the order cursor read,
\* member and metadata lookup, feed drain, payload build, POST, cursor
\* write: the metadata is looked up once, before the change records are
\* fetched, for all the member time series of the subscription; the cursor
\* write comes after a POST answered 200.
C14_MetadataThenDrain ==
    \A r \in Runs :
       Active(r) =>
          /\ Follows(run[r].steps,
                     <<"retrieve", "latest", "members", "drain", "build", "post">>)
          /\ run[r].pc \in {"drain", "build", "post", "now", "insert"} =>
                /\ Len(run[r].steps) >= 3
                /\ run[r].ts_list = SortedSeq(members)
          /\ run[r].pc \in {"now", "insert"} =>
                /\ Len(run[r].steps) = 6
                /\ run[r].response = 200

\* An invocation is about to write the cursor: it has read the cursor,
\* looked up the metadata of both member time series, fetched change records
\* of one of them only, built the payload and posted it.
C14_Witness ==
    \E r \in Runs :
       /\ run[r].pc = "insert"
       /\ run[r].steps = <<"retrieve", "create", "members", "drain", "build", "post">>
       /\ Len(run[r].ts_list) = 2
       /\ Len(run[r].update_data) > 0
       /\ \A i \in 1..Len(run[r].update_data) : run[r].update_data[i].upserts.id = 1

(***************************************************************************)
(* The state time series: its creation and its data points.                *)
(***************************************************************************)
\* C15 (as stated): an invocation that finds no state time series creates
\* it and goes on with no cursor; creating is idempotent: when the time
\* series exists by then (another invocation created it), the creation is a
\* no-op and the invocation goes on all the same.  So unless a failure is
\* injected, the creation step leads on to the member lookup.
C15_ProvisioningIdempotent ==
    [][\A r \in Runs :
          (run[r].pc = "create" /\ run'[r] # run[r] /\ faults' = faults) =>
             /\ run'[r].pc = "members"
             /\ run'[r].cursor = None
             /\ state_ts']_vars

\* C16 (as stated): every successful cursor write adds a data point at a
\* timestamp that held none and leaves the data points there are as they
\* were, so that the data points count the successful writes.
C16_AppendOnly ==
    [][\A r \in Runs :
          Inserts(r) =>
             /\ run[r].now \notin DOMAIN dps
             /\ DOMAIN dps' = DOMAIN dps \cup {run[r].now}
             /\ \A t \in DOMAIN dps : dps'[t] = dps[t]]_vars

(***************************************************************************)
(* The POST and the cursor write of one invocation (Spec).                 *)
(***************************************************************************)
\* C17: an invocation sends at most one POST, whose body is the payload of
\* the whole batch; it has sent none before it reaches step 7 and none when
\* it ends as a no-op, and a POST that failed is not sent again: the
\* invocation ends there.
C17_SinglePost ==
    \A r \in Runs :
       /\ run[r].posts <= 1
       /\ run[r].pc \in {"retrieve", "create", "latest", "members", "drain", "build", "post"}
             => run[r].posts = 0
       /\ run[r].pc = "post" =>
             /\ Len(run[r].update_data) > 0
             /\ Len(run[r].data) = Len(run[r].update_data)
       /\ run[r].pc \in {"now", "insert"} => run[r].posts = 1
       /\ run[r].outcome = "NoOp" => run[r].posts = 0
       /\ run[r].outcome \in {"PublishError", "CursorAdvanced"} =>
             (run[r].posts = 1 /\ run[r].pc = "done")

\* One invocation ended as a no-op without a POST, the other's one POST was
\* answered 500 and it ended there.
C17_Witness ==
    \E r, q \in Runs :
       /\ run[r].outcome = "NoOp" /\ run[r].posts = 0
       /\ run[q].outcome = "PublishError" /\ run[q].response = 500
       /\ run[q].posts = 1

\* The number of change records in batches of the sizes `pages`.
RECURSIVE Sum(_)
Sum(pages) == IF Len(pages) = 0 THEN 0 ELSE Head(pages) + Sum(Tail(pages))

\* C20: a cursor write never stores None: an invocation gets to the POST and
\* the write only with a non-empty update_data, so it has fetched at least
\* one batch and its cursor is the cursor of the last batch fetched; every
\* value of the state time series is a cursor the feed handed out.
C20_NeverStoresNone ==
    /\ \A t \in DOMAIN dps :
          dps[t] # None /\ \E n \in 1..Len(feed) : dps[t] = CursorAt(n)
    /\ \A r \in Runs :
          run[r].pc \in {"post", "now", "insert"} =>
             /\ Len(run[r].update_data) > 0
             /\ run[r].pages # <<>>
             /\ run[r].cursor # None
             /\ run[r].cursor = CursorAt(PosOf(run[r].read) + Sum(run[r].pages))

\* An invocation that had read no cursor stored the cursor of the one batch
\* it fetched.
C20_Witness ==
    \E r \in Runs :
       /\ run[r].outcome = "CursorAdvanced" /\ run[r].read = None
       /\ run[r].pages = <<1>>
       /\ StoredCursor = CursorAt(1)

(***************************************************************************)
(* BuildSpec: the feed holds a sequence of upserts, some of several data   *)
(* points and several for the same time series; invocations follow one     *)
(* another in one slot and no call fails.                                  *)
(***************************************************************************)
\* The upserts the sequences are made of.
BuildUpdates ==
    { Upsert(1, <<ExampleMs, Ms(0, 5)>>, <<"98.6", "99.1">>),
      Upsert(1, <<Ms(0, 5)>>, <<"1.5">>),
      Upsert(2, <<Ms(0, 0), ExampleMs, Ms(0, 5)>>, <<"7.0", "98.6", "1.5">>) }

\* The sequences of at most n of these upserts.
RECURSIVE UpsertSeqs(_)
UpsertSeqs(n) ==
    IF n = 0 THEN {<<>>}
    ELSE LET shorter == UpsertSeqs(n - 1)
         IN  shorter \cup {Append(b, u) : b \in shorter, u \in BuildUpdates}

BuildInit ==
    /\ feed \in UpsertSeqs(MaxRecords)
    /\ members  = Streams
    /\ state_ts = FALSE
    /\ dps      = <<>>
    /\ clock    = 0
    /\ run      = [r \in Runs |-> Frame("idle")]
    /\ acked    = [p \in 1..Len(feed) |-> 0]
    /\ delivered = [p \in 1..Len(feed) |-> 0]
    /\ started  = 0
    /\ faults   = 0

BuildSpecNext ==
    \/ Invoke(1) /\ UNCHANGED faults
    \/ Proceed(1) /\ UNCHANGED <<started, faults>>

BuildSpec == BuildInit /\ [][BuildSpecNext]_vars

\* C18: for a sequence of upserts, create_powerbi_payload does not raise and
\* returns one row per record, the i-th row from the i-th record: the row's
\* timestamp denotes the first timestamp of the record, its value is the
\* first value and its tag the external id of the record's time series,
\* whatever the record's further data points and whatever the other records
\* for the same time series.
C18_OneRowPerRecordInOrder ==
    /\ run[1].outcome # "Failed"
    /\ run[1].pc \in {"post", "now", "insert"} =>
          /\ Len(run[1].data) = Len(run[1].update_data)
          /\ \A i \in 1..Len(run[1].update_data) :
                LET upsert == run[1].update_data[i].upserts
                    row    == run[1].data[i]
                IN  /\ ParseIso(row.timestamp) = Head(upsert.timestamp)
                    /\ row.value = Head(upsert.value)
                    /\ row.tag = TimeSeries(upsert.id).external_id

\* The payload built for three records, two of them for the same time
\* series and alike, of two data points each: three rows, the first two
\* alike, from the first data point.
C18_Witness ==
    /\ run[1].pc = "post"
    /\ run[1].update_data =
          << Upsert(1, <<ExampleMs, Ms(0, 5)>>, <<"98.6", "99.1">>),
             Upsert(1, <<ExampleMs, Ms(0, 5)>>, <<"98.6", "99.1">>),
             Upsert(2, <<Ms(0, 0), ExampleMs, Ms(0, 5)>>, <<"7.0", "98.6", "1.5">>) >>
    /\ Len(run[1].data) = 3
    /\ run[1].data[1] = run[1].data[2]
    /\ run[1].data[1].value = "98.6"
    /\ run[1].data[3].value = "7.0"
    /\ run[1].data[3].tag # run[1].data[1].tag

(***************************************************************************)
(* HangSpec: as FairSpec, but for the POST.  The calls of the Cognite      *)
(* client answer or raise within the client's timeout; the POST is sent    *)
(* by requests.request with no timeout, so an invocation that has sent it  *)
(* stays at that call for as long as the sink does not answer.             *)
(***************************************************************************)
\* An invocation that is active and is not waiting for the sink's answer
\* is not so for ever without taking a step.
StepsUnlessPosting(r) ==
    []<>(~Active(r) \/ run[r].pc = "post") \/ []<><<Step(r)>>_vars

HangSpec ==
    /\ Init
    /\ [][FairNext]_vars
    /\ \A r \in Runs : WF_vars(Reinvoke(r)) /\ StepsUnlessPosting(r)

\* C19 (as stated): every invocation of handle ends: from any of its calls
\* it gets to done, as NoOp, CursorAdvanced or Failed (here with the sink's
\* error too), whether the peer answers or not.
C19_EveryRunTerminates ==
    \A r \in Runs : Active(r) ~> ~Active(r)

=============================================================================
